---- MODULE Spec2Model ----
(***************************************************************************)
(* State-machine model of src/detector.py: the streaming Detector with its *)
(* four detection strategies (threshold, pattern, anomaly, change), its    *)
(* sliding window (data_buffer) and its result log (detection_history).    *)
(*                                                                         *)
(* Numbers.  Python floats are modelled by exact arithmetic: a rational is *)
(* a record [num, den] in lowest terms with den > 0, and a real that may   *)
(* be a square root (std_dev and what is computed from it) is a record     *)
(* [sgn, sq]: its sign and the rational that is its square.  A division by *)
(* zero yields the value ZeroDivisionError, which every later operation    *)
(* propagates, and add_data_point then takes the exception path.  Float    *)
(* rounding is outside this model; non-finite values and the overflow of a *)
(* square are modelled in specifications of their own.  The module also    *)
(* models FaceDetectionCrossing of src/index.py and the traffic-light      *)
(* loops of src/main.py and src/test_index.py, each in its own             *)
(* specification.                                                          *)
(***************************************************************************)
EXTENDS Integers, Sequences, FiniteSets, TLC

VARIABLES
    config,                \* self.config: the DetectionConfig given to __init__
    data_buffer,           \* self.data_buffer: the sliding window
    detection_history,     \* self.detection_history: every result produced
    _last_detection_time,  \* self._last_detection_time
    clock,                 \* the reading time.time() gives to the next _detect
    ingested,              \* ghost: the values passed to add_data_point since __init__/reset
    callback_log,          \* ghost: the results config.callback has been called with
    callback_saw,          \* ghost: the detector as the callback run by the last call saw it
    last_call              \* ghost: the last operation, its argument and its outcome

\* src/index.py: a FaceDetectionCrossing
VARIABLES
    min_faces,             \* self.min_faces
    crossing_duration,     \* self.crossing_duration, in seconds
    isCrossing,            \* self.isCrossing
    crossing_end_time,     \* self.crossing_end_time: None or a time
    now,                   \* what datetime.now() returns, in seconds
    last_update,           \* ghost: None or the argument and the time of the last update
    last_enough            \* ghost: None or the time of the last update with enough faces

detector_vars == <<config, data_buffer, detection_history, _last_detection_time,
                   clock, ingested, callback_log, callback_saw, last_call>>

crossing_vars == <<min_faces, crossing_duration, isCrossing, crossing_end_time,
                   now, last_update, last_enough>>

\* src/main.py: the traffic-light loop of main().  The loop reads its times
\* last_change and last_face_time only in the differences now - last_change
\* and now - last_face_time, and these differences are what is kept.
VARIABLES
    state,                 \* state: "red", "yellow" or "green"
    previous_state,        \* previous_state
    since_last_change,     \* now - last_change at the last frame, in seconds
    since_last_face,       \* now - last_face_time at the last frame, in seconds
    last_frame,            \* ghost: None or num_faces, elapsed and no_face_time of the last frame
    entered_from,          \* ghost: None or the state the light was in before its last change
    program                \* the file whose loop is running: "main.py", "test_index.py" or "none"

\* src/test_index.py, "the real main.py": the traffic-light loop with car
\* detection has state, previous_state and last_change as above, and
VARIABLES
    red_started,               \* red_started
    green_started,             \* green_started
    since_red_no_face_start,   \* None while red_no_face_start is unbound, or now - red_no_face_start at the last frame
    since_green_no_car_start   \* now - green_no_car_start at the last frame

light_vars == <<state, previous_state, since_last_change, since_last_face, last_frame,
                entered_from, program, red_started, green_started, since_red_no_face_start,
                since_green_no_car_start>>

vars == <<detector_vars, crossing_vars, light_vars>>

-----------------------------------------------------------------------------
(* Bounds of the model *)

MaxVal == 1        \* ingested values range over -1 .. MaxVal
MaxWindow == 3     \* window_size ranges over 0 .. MaxWindow
MaxCalls == 4      \* add_data_point calls per run (readings of the clock)
MaxFaces == 2      \* min_faces and the number of faces in a frame range over 0 .. MaxFaces
MaxDuration == 2   \* crossing_duration ranges over -1 .. MaxDuration
MaxTime == 4       \* datetime.now() ranges over 0 .. MaxTime
MaxFrameGap == 2   \* seconds between two frames of the traffic-light loop: 0 .. MaxFrameGap
MaxAge == 31       \* differences of times are counted up to MaxAge, above every duration
MaxCars == 1       \* the number of cars in a frame ranges over 0 .. MaxCars

Values == (-1)..MaxVal

(* The floats that are not finite.  A float is an integer in the model;
   float("inf") is an integer above every finite value that occurs, with
   every threshold and every difference, float("-inf") is its negative and
   float("nan") lies beyond them.  Only _threshold_detection is modelled on
   them: it reads the newest value alone, and as integers they compare and
   divide as the floats do, but for the comparisons with nan, all false. *)
Infinity == 1000

NaN == Infinity + 1

IsFinite(value) == -Infinity < value /\ value < Infinity

NonFinite == {NaN, Infinity, -Infinity}

(* Float overflow.  Python raises OverflowError when the square computed by
   (x - mean) ** 2 is beyond the largest float, that is when |x - mean| is
   above its square root, about 1.3e154.  The model keeps the two sizes
   apart on a smaller scale: Huge stands for a finite float such as 1e200,
   and SqrtFloatMax lies between the differences of ordinary values and the
   differences within any window that holds Huge beside another value. *)
Huge == 100

SqrtFloatMax == 20

-----------------------------------------------------------------------------
(* Exact rational arithmetic *)

Abs(n) == IF n < 0 THEN -n ELSE n

Sign(n) == IF n < 0 THEN -1 ELSE IF n > 0 THEN 1 ELSE 0

RECURSIVE GCD(_, _)
GCD(a, b) == IF b = 0 THEN a ELSE GCD(b, a % b)

\* The outcome of a division by zero, propagated by every operation below.
ZeroDivisionError == [num |-> 0, den |-> 0]

IsError(q) == q.den = 0

\* n/d in lowest terms with a positive denominator.
Rat(n, d) ==
    IF d = 0 THEN ZeroDivisionError
    ELSE LET g == GCD(Abs(n), Abs(d))
             s == IF d < 0 THEN -1 ELSE 1
         IN  [num |-> (s * n) \div g, den |-> (s * d) \div g]

R(n) == [num |-> n, den |-> 1]

RAdd(a, b) ==
    IF IsError(a) \/ IsError(b) THEN ZeroDivisionError
    ELSE Rat(a.num * b.den + b.num * a.den, a.den * b.den)

RSub(a, b) ==
    IF IsError(a) \/ IsError(b) THEN ZeroDivisionError
    ELSE Rat(a.num * b.den - b.num * a.den, a.den * b.den)

RMul(a, b) ==
    IF IsError(a) \/ IsError(b) THEN ZeroDivisionError
    ELSE Rat(a.num * b.num, a.den * b.den)

\* Python's a / b: raises ZeroDivisionError when b is zero.
RDiv(a, b) ==
    IF IsError(a) \/ IsError(b) THEN ZeroDivisionError
    ELSE Rat(a.num * b.den, a.den * b.num)

RAbs(a) == [num |-> Abs(a.num), den |-> a.den]

RLt(a, b) == a.num * b.den < b.num * a.den

RLe(a, b) == a.num * b.den <= b.num * a.den

RIsZero(a) == a.num = 0 /\ a.den # 0

-----------------------------------------------------------------------------
(* Reals that may be square roots: [sgn, sq] is sgn * sqrt(sq) *)

FromRat(q) == [sgn |-> Sign(q.num), sq |-> RMul(q, q)]

Zero == FromRat(R(0))

One == FromRat(R(1))

\* q ** 0.5 for a rational q >= 0
Sqrt(q) == [sgn |-> Sign(q.num), sq |-> q]

XIsError(x) == IsError(x.sq)

XMul(x, y) == [sgn |-> x.sgn * y.sgn, sq |-> RMul(x.sq, y.sq)]

XDiv(x, y) ==
    IF y.sgn = 0 THEN [sgn |-> 0, sq |-> ZeroDivisionError]
    ELSE [sgn |-> x.sgn * y.sgn, sq |-> RDiv(x.sq, y.sq)]

XAbs(x) == [sgn |-> Abs(x.sgn), sq |-> x.sq]

XLt(x, y) ==
    IF x.sgn # y.sgn THEN x.sgn < y.sgn
    ELSE IF x.sgn = 1 THEN RLt(x.sq, y.sq)
    ELSE IF x.sgn = -1 THEN RLt(y.sq, x.sq)
    ELSE FALSE

XLe(x, y) == ~XLt(y, x)

XIsZero(x) == x.sgn = 0 /\ ~XIsError(x)

\* Python's min(x, y): x unless y is smaller.
XMin(x, y) == IF XLt(y, x) THEN y ELSE x

\* Python's max(x, y): x unless y is greater.
XMax(x, y) == IF XLt(x, y) THEN y ELSE x

-----------------------------------------------------------------------------
(* class DetectionType, @dataclass DetectionConfig, @dataclass DetectionResult *)

THRESHOLD == "threshold"
PATTERN == "pattern"
ANOMALY == "anomaly"
CHANGE == "change"

DetectionType == {THRESHOLD, PATTERN, ANOMALY, CHANGE}

\* Optional[...]: None is the empty tuple, a present value x is <<x>>.
None == <<>>

Some(x) == <<x>>

\* DetectionConfig(detection_type, threshold=None, window_size=10,
\*                 sensitivity=1.0, callback=None).
\* callback is None, or a callable that returns, or a callable that raises.
DetectionConfig(detection_type, threshold, window_size, sensitivity, callback) ==
    [detection_type |-> detection_type, threshold |-> threshold,
     window_size |-> window_size, sensitivity |-> sensitivity,
     callback |-> callback]

DefaultThreshold == None

DefaultSensitivity == R(1)

DetectionResult(detected, confidence, timestamp, metadata) ==
    [detected |-> detected, confidence |-> confidence,
     timestamp |-> timestamp, metadata |-> metadata]

\* An exception leaving a method instead of a result.
Raise(name) == [exception |-> name]

IsException(r) == "exception" \in DOMAIN r

\* The result of an arithmetic step, or the exception it raised.
Checked(values, result) ==
    IF \E i \in 1..Len(values) : XIsError(values[i])
    THEN Raise("ZeroDivisionError")
    ELSE result

-----------------------------------------------------------------------------
(* Detector._threshold_detection *)

\* detected = current_value >= self.config.threshold
ThresholdDetected(current_value, threshold) ==
    current_value # NaN /\ RLe(threshold, R(current_value))

\* min(1.0, abs(current_value - threshold) / abs(threshold)) if threshold != 0 else 0.0
ThresholdConfidence(current_value, threshold) ==
    IF ~RIsZero(threshold)
    THEN XMin(One, FromRat(RDiv(RAbs(RSub(R(current_value), threshold)),
                                RAbs(threshold))))
    ELSE Zero

_threshold_detection(buf, cfg, timestamp) ==
    IF buf = <<>> \/ cfg.threshold = None
    THEN DetectionResult(FALSE, Zero, timestamp, [reason |-> "insufficient_data"])
    ELSE LET current_value == buf[Len(buf)]
             threshold == cfg.threshold[1]
             detected == ThresholdDetected(current_value, threshold)
             confidence == ThresholdConfidence(current_value, threshold)
         IN  Checked(<<confidence>>,
                 DetectionResult(detected, confidence, timestamp,
                     [current_value |-> current_value,
                      threshold |-> threshold,
                      buffer_size |-> Len(buf)]))

-----------------------------------------------------------------------------
(* Detector._pattern_detection *)

\* Mutant of IsIncreasing: <= in place of <.
IsIncreasing_NonStrict(buf) == \A i \in 1..(Len(buf) - 1) : buf[i] <= buf[i + 1]

\* all(buf[i] < buf[i + 1] for i in range(len(buf) - 1))
IsIncreasing(buf) == \A i \in 1..(Len(buf) - 1) : buf[i] < buf[i + 1]

\* all(buf[i] > buf[i + 1] for i in range(len(buf) - 1))
IsDecreasing(buf) == \A i \in 1..(Len(buf) - 1) : buf[i] > buf[i + 1]

\* if len(self.data_buffer) < 3
\* Mutant of MinPatternWindow: two values are taken for a pattern.
MinPatternWindow_Two == 3 - 1

MinPatternWindow == 3

_pattern_detection(buf, cfg, timestamp) ==
    IF Len(buf) < MinPatternWindow
    THEN DetectionResult(FALSE, Zero, timestamp, [reason |-> "insufficient_data"])
    ELSE LET is_increasing == IsIncreasing(buf)
             is_decreasing == IsDecreasing(buf)
             detected == is_increasing \/ is_decreasing
             confidence == IF detected THEN One ELSE Zero
         IN  DetectionResult(detected, confidence, timestamp,
                 [pattern |-> IF is_increasing THEN "increasing"
                              ELSE IF is_decreasing THEN "decreasing"
                              ELSE "none",
                  buffer_size |-> Len(buf)])

-----------------------------------------------------------------------------
(* Detector._anomaly_detection *)

RECURSIVE SumSeq(_)
\* sum(buf)
SumSeq(buf) == IF buf = <<>> THEN 0 ELSE buf[1] + SumSeq(Tail(buf))

RECURSIVE SumSquares(_, _)
\* sum((x - mean) ** 2 for x in buf)
SumSquares(buf, mean) ==
    IF buf = <<>> THEN R(0)
    ELSE LET d == RSub(R(buf[1]), mean)
         IN  RAdd(RMul(d, d), SumSquares(Tail(buf), mean))

\* mean = sum(buf) / len(buf)
Mean(buf) == RDiv(R(SumSeq(buf)), R(Len(buf)))

\* Mutant of Variance: the sample variance, dividing by len(buf) - 1.
Variance_Sample(buf, mean) == RDiv(SumSquares(buf, mean), R(Len(buf) - 1))

\* variance = sum((x - mean) ** 2 for x in buf) / len(buf)
Variance(buf, mean) == RDiv(SumSquares(buf, mean), R(Len(buf)))

\* threshold = self.config.sensitivity * std_dev
AnomalyThreshold(sensitivity, std_dev) == XMul(FromRat(sensitivity), std_dev)

\* detected = abs(current_value - mean) > threshold
AnomalyDetected(deviation, threshold) == XLt(threshold, FromRat(deviation))

\* Mutant of AnomalyConfidence: the "if threshold != 0" fallback is missing.
AnomalyConfidence_NoZeroCase(deviation, threshold) ==
    XMin(One, XDiv(FromRat(deviation), XMax(threshold, One)))

\* min(1.0, abs(current_value - mean) / max(threshold, 1.0)) if threshold != 0 else 0.0
AnomalyConfidence(deviation, threshold) ==
    IF ~XIsZero(threshold)
    THEN XMin(One, XDiv(FromRat(deviation), XMax(threshold, One)))
    ELSE Zero

\* (x - mean) ** 2 raises OverflowError for some x in buf
Overflows(buf, mean) ==
    \E i \in 1..Len(buf) : RLt(R(SqrtFloatMax), RAbs(RSub(R(buf[i]), mean)))

\* if len(self.data_buffer) < 3
MinAnomalyWindow == 3

_anomaly_detection(buf, cfg, timestamp) ==
    IF Len(buf) < MinAnomalyWindow
    THEN DetectionResult(FALSE, Zero, timestamp, [reason |-> "insufficient_data"])
    ELSE LET mean == Mean(buf)
             variance == Variance(buf, mean)
             std_dev == Sqrt(variance)
             current_value == buf[Len(buf)]
             threshold == AnomalyThreshold(cfg.sensitivity, std_dev)
             deviation == RAbs(RSub(R(current_value), mean))
             detected == AnomalyDetected(deviation, threshold)
             confidence == AnomalyConfidence(deviation, threshold)
         IN  IF Overflows(buf, mean) THEN Raise("OverflowError")
             ELSE Checked(<<std_dev, confidence>>,
                     DetectionResult(detected, confidence, timestamp,
                         [current_value |-> current_value,
                          mean |-> mean,
                          std_dev |-> std_dev,
                          deviation |-> deviation]))

-----------------------------------------------------------------------------
(* Detector._change_detection *)

\* Mutant of RelativeChange: the "if prev_value != 0" test is missing.
RelativeChange_NoZeroCase(prev_value, current_value) ==
    RAbs(RDiv(RSub(R(current_value), R(prev_value)), R(prev_value)))

\* abs((current_value - prev_value) / prev_value) if prev_value != 0,
\* else abs(current_value)
RelativeChange(prev_value, current_value) ==
    IF prev_value # 0
    THEN RAbs(RDiv(RSub(R(current_value), R(prev_value)), R(prev_value)))
    ELSE RAbs(R(current_value))

\* Mutant of ChangeDetected: any change at all is detected.
ChangeDetected_AnyChange(relative_change, sensitivity) == RLt(R(0), relative_change)

\* detected = relative_change > self.config.sensitivity
ChangeDetected(relative_change, sensitivity) == RLt(sensitivity, relative_change)

\* min(1.0, relative_change / sensitivity) if sensitivity != 0 else 0.0
ChangeConfidence(relative_change, sensitivity) ==
    IF ~RIsZero(sensitivity)
    THEN XMin(One, FromRat(RDiv(relative_change, sensitivity)))
    ELSE Zero

\* if len(self.data_buffer) < 2
MinChangeWindow == 2

_change_detection(buf, cfg, timestamp) ==
    IF Len(buf) < MinChangeWindow
    THEN DetectionResult(FALSE, Zero, timestamp, [reason |-> "insufficient_data"])
    ELSE LET prev_value == buf[Len(buf) - 1]
             current_value == buf[Len(buf)]
             relative_change == RelativeChange(prev_value, current_value)
             detected == ChangeDetected(relative_change, cfg.sensitivity)
             confidence == ChangeConfidence(relative_change, cfg.sensitivity)
         IN  Checked(<<FromRat(relative_change), confidence>>,
                 DetectionResult(detected, confidence, timestamp,
                     [previous_value |-> prev_value,
                      current_value |-> current_value,
                      relative_change |-> relative_change]))

-----------------------------------------------------------------------------
(* Detector._detect *)

\* Mutant of _detect: a detection directly after a detection is suppressed.
_detect_Debounced(buf, cfg, timestamp) ==
    LET result ==
            IF cfg.detection_type = THRESHOLD THEN _threshold_detection(buf, cfg, timestamp)
            ELSE IF cfg.detection_type = PATTERN THEN _pattern_detection(buf, cfg, timestamp)
            ELSE IF cfg.detection_type = ANOMALY THEN _anomaly_detection(buf, cfg, timestamp)
            ELSE IF cfg.detection_type = CHANGE THEN _change_detection(buf, cfg, timestamp)
            ELSE DetectionResult(FALSE, Zero, timestamp, [error |-> "Unknown detection type"])
    IN  IF /\ ~IsException(result)
           /\ detection_history # <<>>
           /\ detection_history[Len(detection_history)].detected
        THEN [result EXCEPT !.detected = FALSE]
        ELSE result

_detect(buf, cfg, timestamp) ==
    IF cfg.detection_type = THRESHOLD THEN _threshold_detection(buf, cfg, timestamp)
    ELSE IF cfg.detection_type = PATTERN THEN _pattern_detection(buf, cfg, timestamp)
    ELSE IF cfg.detection_type = ANOMALY THEN _anomaly_detection(buf, cfg, timestamp)
    ELSE IF cfg.detection_type = CHANGE THEN _change_detection(buf, cfg, timestamp)
    ELSE DetectionResult(FALSE, Zero, timestamp, [error |-> "Unknown detection type"])

-----------------------------------------------------------------------------
(* The configurations a Detector is constructed with.  DetectionConfig is a *)
(* plain dataclass and __init__ stores it unchecked, so window_size 0, a    *)
(* zero or negative sensitivity, a missing threshold and a detection_type   *)
(* outside the enumeration are all configurations a Detector can hold.      *)

Thresholds == {None} \cup {Some(t) : t \in {Rat(-1, 2), R(0), R(1), R(2)}}

Sensitivities == {R(-1), R(0), Rat(1, 2), R(1)}

WindowSizes == 0..MaxWindow

\* config.callback: None, a callable that returns, a callable that raises
Callbacks == {"None", "returns", "raises"}

ThresholdConfigs ==
    {DetectionConfig(THRESHOLD, t, w, DefaultSensitivity, cb) :
        t \in Thresholds, w \in WindowSizes, cb \in Callbacks}

PatternConfigs ==
    {DetectionConfig(PATTERN, DefaultThreshold, w, DefaultSensitivity, cb) :
        w \in WindowSizes, cb \in Callbacks}

AnomalyConfigs ==
    {DetectionConfig(ANOMALY, DefaultThreshold, w, s, cb) :
        w \in WindowSizes, s \in Sensitivities, cb \in Callbacks}

ChangeConfigs ==
    {DetectionConfig(CHANGE, DefaultThreshold, w, s, cb) :
        w \in WindowSizes, s \in Sensitivities, cb \in Callbacks}

\* a detection_type that is no member of DetectionType
UnknownConfigs ==
    {DetectionConfig("unknown", DefaultThreshold, w, DefaultSensitivity, cb) :
        w \in WindowSizes, cb \in Callbacks}

Configs ==
    ThresholdConfigs \cup PatternConfigs \cup AnomalyConfigs \cup ChangeConfigs
        \cup UnknownConfigs

-----------------------------------------------------------------------------
(* Detector.__init__ *)

Call(op, value, returned, raised) ==
    [op |-> op, value |-> value, returned |-> returned, raised |-> raised]

__init__(cfg) ==
    /\ config = cfg
    /\ data_buffer = <<>>
    /\ detection_history = <<>>
    /\ _last_detection_time = 0
    /\ clock = 0
    /\ ingested = <<>>
    /\ callback_log = <<>>
    /\ callback_saw = None
    /\ last_call = Call("__init__", 0, None, "None")

\* no FaceDetectionCrossing has been constructed
NoCrossing ==
    /\ min_faces = None
    /\ crossing_duration = None
    /\ isCrossing = None
    /\ crossing_end_time = None
    /\ now = None
    /\ last_update = None
    /\ last_enough = None

\* no traffic-light loop is running
NoLight ==
    /\ state = None
    /\ previous_state = None
    /\ since_last_change = None
    /\ since_last_face = None
    /\ last_frame = None
    /\ entered_from = None
    /\ program = "none"
    /\ red_started = None
    /\ green_started = None
    /\ since_red_no_face_start = None
    /\ since_green_no_car_start = None

Init == (\E cfg \in Configs : __init__(cfg)) /\ NoCrossing /\ NoLight

-----------------------------------------------------------------------------
(* Detector.add_data_point *)

\* Mutant of MaintainWindow: pop() in place of pop(0) evicts the newest value.
MaintainWindow_PopsNewest(buf, window_size) ==
    IF Len(buf) > window_size THEN SubSeq(buf, 1, Len(buf) - 1) ELSE buf

\* Mutant of MaintainWindow: nothing is ever evicted.
MaintainWindow_NoEviction(buf, window_size) == buf

\* if len(self.data_buffer) > self.config.window_size: self.data_buffer.pop(0)
MaintainWindow(buf, window_size) ==
    IF Len(buf) > window_size THEN Tail(buf) ELSE buf

\* Mutant of StoreResult: the newest result is put first.
StoreResult_Prepends(history, result) == <<result>> \o history

\* Mutant of StoreResult: only positive detections are logged.
StoreResult_DetectionsOnly(history, result) ==
    IF result.detected THEN Append(history, result) ELSE history

\* self.detection_history.append(result)
StoreResult(history, result) == Append(history, result)

\* Mutant of CallbackFires: the callback is called for every result.
CallbackFires_EveryResult(result, callback) == callback # "None"

\* if result.detected and self.config.callback
CallbackFires(result, callback) == result.detected /\ callback # "None"

\* What self.config.callback(result) is called on: the detector's window and
\* history at that point of add_data_point.
CallbackView(buf, history) == [data_buffer |-> buf, detection_history |-> history]

\* Mutant of CallbackOutcome: the callback's exception is caught and the
\* result returned.
CallbackOutcome_Swallowed(callback, value, result) ==
    Call("add_data_point", value, Some(result), "None")

\* self.config.callback(result); return result: an exception raised by the
\* callback is not caught and leaves add_data_point.
CallbackOutcome(callback, value, result) ==
    IF callback = "raises"
    THEN Call("add_data_point", value, None, "CallbackError")
    ELSE Call("add_data_point", value, Some(result), "None")

add_data_point(value) ==
    LET buf == MaintainWindow(Append(data_buffer, value), config.window_size)
        result == _detect(buf, config, clock)
    IN  /\ clock < MaxCalls
        /\ data_buffer' = buf
        /\ clock' = clock + 1
        /\ ingested' = Append(ingested, value)
        /\ IF IsException(result)
           THEN /\ last_call' = Call("add_data_point", value, None, result.exception)
                /\ callback_saw' = None
                /\ UNCHANGED <<detection_history, callback_log>>
           ELSE /\ detection_history' = StoreResult(detection_history, result)
                /\ IF CallbackFires(result, config.callback)
                   THEN /\ callback_log' = Append(callback_log, result)
                        /\ callback_saw' =
                             Some(CallbackView(buf, StoreResult(detection_history, result)))
                        /\ last_call' = CallbackOutcome(config.callback, value, result)
                   ELSE /\ callback_log' = callback_log
                        /\ callback_saw' = None
                        /\ last_call' = Call("add_data_point", value, Some(result), "None")
        /\ UNCHANGED <<config, _last_detection_time>>

-----------------------------------------------------------------------------
(* Detector.reset *)

\* Mutant of reset: the window is kept.
reset_KeepsWindow ==
    /\ detection_history' = <<>>
    /\ _last_detection_time' = 0
    /\ ingested' = <<>>
    /\ callback_saw' = None
    /\ last_call' = Call("reset", 0, None, "None")
    /\ UNCHANGED <<config, data_buffer, clock, callback_log>>

\* Mutant of reset: the callback is dropped with the window and the history.
reset_DropsCallback ==
    /\ data_buffer' = <<>>
    /\ detection_history' = <<>>
    /\ _last_detection_time' = 0
    /\ ingested' = <<>>
    /\ config' = [config EXCEPT !.callback = "None"]
    /\ callback_saw' = None
    /\ last_call' = Call("reset", 0, None, "None")
    /\ UNCHANGED <<clock, callback_log>>

\* Mutant of reset: detection_history.clear() is missing.
reset_KeepsHistory ==
    /\ data_buffer' = <<>>
    /\ _last_detection_time' = 0
    /\ ingested' = <<>>
    /\ callback_saw' = None
    /\ last_call' = Call("reset", 0, None, "None")
    /\ UNCHANGED <<config, clock, callback_log, detection_history>>

reset ==
    /\ data_buffer' = <<>>
    /\ detection_history' = <<>>
    /\ _last_detection_time' = 0
    /\ ingested' = <<>>
    /\ callback_saw' = None
    /\ last_call' = Call("reset", 0, None, "None")
    /\ UNCHANGED <<config, clock, callback_log>>

-----------------------------------------------------------------------------
(* Specifications *)

(* get_statistics.  A sum of confidences is a sum of square roots of
   rationals; it is kept as the set of its terms coef * sqrt(rad), one for
   each square-free rad, with the zero terms left out, so that equal sums are
   equal sets. *)

RECURSIVE SquarePart(_, _)
\* the largest j with j * j dividing n, for n >= 1, searched from k = 2 upward
SquarePart(n, k) ==
    IF k * k > n THEN 1
    ELSE IF n % (k * k) = 0 THEN k * SquarePart(n \div (k * k), k)
    ELSE SquarePart(n, k + 1)

\* x = sgn * sqrt(a / b) = (sgn * j / b) * sqrt(rad), where a * b = j * j * rad
Surd(x) ==
    IF x.sgn = 0 THEN [rad |-> 1, coef |-> R(0)]
    ELSE LET n == x.sq.num * x.sq.den
             j == SquarePart(n, 2)
         IN  [rad |-> n \div (j * j), coef |-> Rat(x.sgn * j, x.sq.den)]

\* the float 0.0 as a sum
SZero == {}

\* sum + x
SAdd(sum, x) ==
    LET t == Surd(x)
        same == {u \in sum : u.rad = t.rad}
        c == IF same = {} THEN t.coef
             ELSE RAdd((CHOOSE u \in same : TRUE).coef, t.coef)
    IN  (sum \ same) \cup (IF RIsZero(c) THEN {} ELSE {[rad |-> t.rad, coef |-> c]})

\* sum / n; dividing by zero raises whatever the sum is
SDiv(sum, n) ==
    IF n = 0 THEN {[rad |-> 1, coef |-> ZeroDivisionError]}
    ELSE {[rad |-> u.rad, coef |-> RDiv(u.coef, R(n))] : u \in sum}

SIsError(sum) == \E u \in sum : IsError(u.coef)

RECURSIVE SumConfidence(_)
\* sum(r.confidence for r in self.detection_history)
SumConfidence(history) ==
    IF history = <<>> THEN SZero
    ELSE SAdd(SumConfidence(SubSeq(history, 1, Len(history) - 1)),
              history[Len(history)].confidence)

\* sum(1 for r in self.detection_history if r.detected)
PositiveDetections(history) ==
    Cardinality({i \in 1..Len(history) : history[i].detected})

\* Mutant of AverageConfidence: the empty history is not told apart.
AverageConfidence_Unguarded(history) == SDiv(SumConfidence(history), Len(history))

\* avg_confidence = 0.0; if self.detection_history: avg_confidence = sum / len
AverageConfidence(history) ==
    IF history # <<>> THEN SDiv(SumConfidence(history), Len(history)) ELSE SZero

\* positive_detections / total_detections if total_detections > 0 else 0.0
DetectionRate(positive_detections, total_detections) ==
    IF total_detections > 0
    THEN RDiv(R(positive_detections), R(total_detections))
    ELSE R(0)

\* the dictionary get_statistics returns
Statistics(history, buf) ==
    [total_checks |-> Len(history),
     positive_detections |-> PositiveDetections(history),
     detection_rate |-> DetectionRate(PositiveDetections(history), Len(history)),
     average_confidence |-> AverageConfidence(history),
     buffer_size |-> Len(buf)]

\* Mutant of get_statistics: the history is handed over and started afresh.
get_statistics_Draining ==
    /\ last_call' = Call("get_statistics", 0,
                         Some(Statistics(detection_history, data_buffer)), "None")
    /\ detection_history' = <<>>
    /\ callback_saw' = None
    /\ UNCHANGED <<config, data_buffer, _last_detection_time, clock, ingested,
                   callback_log>>

get_statistics ==
    LET stats == Statistics(detection_history, data_buffer)
    IN  /\ last_call' =
             IF IsError(stats.detection_rate) \/ SIsError(stats.average_confidence)
             THEN Call("get_statistics", 0, None, "ZeroDivisionError")
             ELSE Call("get_statistics", 0, Some(stats), "None")
        /\ callback_saw' = None
        /\ UNCHANGED <<config, data_buffer, detection_history, _last_detection_time,
                       clock, ingested, callback_log>>

AddDataPoint ==
    (\E value \in Values : add_data_point(value)) /\ UNCHANGED <<crossing_vars, light_vars>>

GetStatistics == get_statistics /\ UNCHANGED <<crossing_vars, light_vars>>

\* add_data_point(float("nan")), add_data_point(float("inf")), ...
AddNonFinite ==
    (\E value \in NonFinite : add_data_point(value)) /\ UNCHANGED <<crossing_vars, light_vars>>

\* add_data_point(1e200)
AddHuge == add_data_point(Huge) /\ UNCHANGED <<crossing_vars, light_vars>>

Reset == reset /\ UNCHANGED <<crossing_vars, light_vars>>

Next == AddDataPoint \/ Reset \/ GetStatistics

\* every configuration
Spec == Init /\ [][Next]_vars

\* one specification per strategy
InitThreshold ==
    (\E cfg \in ThresholdConfigs : __init__(cfg)) /\ NoCrossing /\ NoLight

SpecThreshold == InitThreshold /\ [][Next]_vars

\* The threshold strategy fed with every float, the non-finite ones included.
NextNonFinite == Next \/ AddNonFinite

SpecNonFinite == InitThreshold /\ [][NextNonFinite]_vars

InitPattern ==
    (\E cfg \in PatternConfigs : __init__(cfg)) /\ NoCrossing /\ NoLight

SpecPattern == InitPattern /\ [][Next]_vars

InitAnomaly ==
    (\E cfg \in AnomalyConfigs : __init__(cfg)) /\ NoCrossing /\ NoLight

SpecAnomaly == InitAnomaly /\ [][Next]_vars

\* The anomaly strategy fed with ordinary values and with a huge one.
NextOverflow == Next \/ AddHuge

SpecOverflow == InitAnomaly /\ [][NextOverflow]_vars

InitChange ==
    (\E cfg \in ChangeConfigs : __init__(cfg)) /\ NoCrossing /\ NoLight

SpecChange == InitChange /\ [][Next]_vars

\* Change detectors with a sensitivity between two relative changes that the
\* values can show, next to the sensitivities of ChangeConfigs.
WideChangeConfigs ==
    {DetectionConfig(CHANGE, DefaultThreshold, w, s, cb) :
        w \in WindowSizes, s \in Sensitivities \cup {Rat(3, 2)}, cb \in Callbacks}

InitChangeWide ==
    (\E cfg \in WideChangeConfigs : __init__(cfg)) /\ NoCrossing /\ NoLight

SpecChangeWide == InitChangeWide /\ [][Next]_vars

-----------------------------------------------------------------------------
(* src/index.py: FaceDetectionCrossing.  Time is counted in whole seconds;
   datetime.now() is read by update_crossing_status, moves on between the
   calls and never goes back. *)

MinFaces == 0..MaxFaces

Durations == (-1)..MaxDuration

NumFaces == 0..MaxFaces

Times == 0..MaxTime

\* no Detector has been constructed
NoDetector ==
    /\ config = None
    /\ data_buffer = <<>>
    /\ detection_history = <<>>
    /\ _last_detection_time = 0
    /\ clock = 0
    /\ ingested = <<>>
    /\ callback_log = <<>>
    /\ callback_saw = None
    /\ last_call = None

\* FaceDetectionCrossing(min_faces, crossing_duration), constructed at time t
FaceDetectionCrossing__init__(min, duration, t) ==
    /\ min_faces = min
    /\ crossing_duration = duration
    /\ isCrossing = FALSE
    /\ crossing_end_time = None
    /\ now = t
    /\ last_update = None
    /\ last_enough = None

\* Mutant of EnoughFaces: more than min_faces faces are asked for.
EnoughFaces_Strict(num_faces, min) == num_faces > min

\* if num_faces >= self.min_faces
EnoughFaces(num_faces, min) == num_faces >= min

\* Mutant of TimerExpired: the end time itself is still within the crossing.
TimerExpired_Strict(current_time, end_time) == current_time > end_time

\* if current_time >= self.crossing_end_time
TimerExpired(current_time, end_time) == current_time >= end_time

\* Mutant of NewEndTime: a running timer is kept.
NewEndTime_KeepsRunning(current_time, duration, end_time) ==
    IF end_time = None THEN Some(current_time + duration) ELSE end_time

\* self.crossing_end_time = current_time + timedelta(seconds=self.crossing_duration)
NewEndTime(current_time, duration, end_time) == Some(current_time + duration)

\* datetime.max, the latest time a datetime can hold
MaxDatetime == 50

\* a crossing_duration that leads beyond datetime.max
HugeDuration == 100

\* current_time + timedelta(seconds=self.crossing_duration) raises
\* OverflowError ("date value out of range")
DateOutOfRange(current_time, duration) == current_time + duration > MaxDatetime

\* An OverflowError at line 63 leaves the call after isCrossing was set at
\* line 59 and before crossing_end_time is assigned.
update_crossing_status(num_faces) ==
    LET current_time == now
    IN  /\ IF EnoughFaces(num_faces, min_faces)
           THEN /\ isCrossing' = TRUE
                /\ crossing_end_time' =
                      IF DateOutOfRange(current_time, crossing_duration)
                      THEN crossing_end_time
                      ELSE NewEndTime(current_time, crossing_duration,
                                      crossing_end_time)
           ELSE IF isCrossing /\ crossing_end_time # None
           THEN IF TimerExpired(current_time, crossing_end_time[1])
                THEN /\ isCrossing' = FALSE
                     /\ crossing_end_time' = None
                ELSE UNCHANGED <<isCrossing, crossing_end_time>>
           ELSE UNCHANGED <<isCrossing, crossing_end_time>>
        /\ last_update' = Some([num_faces |-> num_faces, time |-> current_time])
        /\ last_enough' = IF num_faces >= min_faces
                          THEN Some(current_time) ELSE last_enough
        /\ UNCHANGED <<min_faces, crossing_duration, now>>

UpdateCrossingStatus ==
    (\E num_faces \in NumFaces : update_crossing_status(num_faces))
        /\ UNCHANGED <<detector_vars, light_vars>>

\* a second passes
Tick ==
    /\ now < MaxTime
    /\ now' = now + 1
    /\ UNCHANGED <<min_faces, crossing_duration, isCrossing, crossing_end_time,
                   last_update, last_enough>>
    /\ UNCHANGED <<detector_vars, light_vars>>

NextCrossing == UpdateCrossingStatus \/ Tick

InitCrossing ==
    /\ \E min \in MinFaces, duration \in Durations :
          FaceDetectionCrossing__init__(min, duration, 0)
    /\ NoDetector
    /\ NoLight

SpecCrossing == InitCrossing /\ [][NextCrossing]_vars

\* FaceDetectionCrossing constructed with any duration, a huge one included.
InitCrossingOverflow ==
    /\ \E min \in MinFaces, duration \in Durations \cup {HugeDuration} :
          FaceDetectionCrossing__init__(min, duration, 0)
    /\ NoDetector
    /\ NoLight

SpecCrossingOverflow == InitCrossingOverflow /\ [][NextCrossing]_vars

-----------------------------------------------------------------------------
(* src/main.py: the traffic-light loop.  One step is one iteration of the
   while loop: a frame is read some seconds after the last one, the faces in
   it are counted and the LOGIC section runs. *)

RED_DURATION == 30

GREEN_DURATION == 30

YELLOW_DURATION == 1

NO_FACE_LIMIT == 10

FrameGaps == 0..MaxFrameGap

\* a difference of two times, counted up to MaxAge
Age(seconds) == IF seconds < MaxAge THEN seconds ELSE MaxAge

\* state = "red"; previous_state = "red"; last_change = datetime.now();
\* last_face_time = datetime.now()
main__init__ ==
    /\ state = "red"
    /\ previous_state = "red"
    /\ since_last_change = 0
    /\ since_last_face = 0
    /\ last_frame = None
    /\ entered_from = None
    /\ program = "main.py"
    /\ red_started = None
    /\ green_started = None
    /\ since_red_no_face_start = None
    /\ since_green_no_car_start = None

\* Mutant of RedEnds: a red phase of any length ends when no face was seen.
RedEnds_NoMinimum(no_face_time, elapsed) ==
    no_face_time >= NO_FACE_LIMIT \/ elapsed >= RED_DURATION

\* Mutant of RedEnds: "and" binds the wrong pair, A and (B or C).
RedEnds_NeedsNoFace(no_face_time, elapsed) ==
    no_face_time >= NO_FACE_LIMIT /\ (elapsed >= NO_FACE_LIMIT \/ elapsed >= RED_DURATION)

\* (no_face_time >= NO_FACE_LIMIT and elapsed >= NO_FACE_LIMIT) or elapsed >= RED_DURATION
RedEnds(no_face_time, elapsed) ==
    (no_face_time >= NO_FACE_LIMIT /\ elapsed >= NO_FACE_LIMIT) \/ elapsed >= RED_DURATION

\* elapsed >= YELLOW_DURATION
YellowEnds(elapsed) == elapsed >= YELLOW_DURATION

\* Mutant of AfterYellow: the test is made against "green".
AfterYellow_TestsGreen(previous) == IF previous = "green" THEN "green" ELSE "red"

\* if previous_state == "red": state = "green" else: state = "red"
AfterYellow(previous) == IF previous = "red" THEN "green" ELSE "red"

\* elapsed >= GREEN_DURATION
GreenEnds(elapsed) == elapsed >= GREEN_DURATION

\* one iteration of the loop, gap seconds after the last one
frame(gap, num_faces) ==
    LET elapsed == Age(since_last_change + gap)
        no_face_time == IF num_faces > 0 THEN 0 ELSE Age(since_last_face + gap)
    IN  /\ since_last_face' = no_face_time
        /\ last_frame' = Some([num_faces |-> num_faces, elapsed |-> elapsed,
                               no_face_time |-> no_face_time])
        /\ CASE state = "red" ->
                  IF RedEnds(no_face_time, elapsed)
                  THEN /\ previous_state' = "red"
                       /\ state' = "yellow"
                       /\ since_last_change' = 0
                  ELSE /\ since_last_change' = elapsed
                       /\ UNCHANGED <<state, previous_state>>
             [] state = "yellow" ->
                  IF YellowEnds(elapsed)
                  THEN /\ state' = AfterYellow(previous_state)
                       /\ previous_state' = state'
                       /\ since_last_change' = 0
                  ELSE /\ since_last_change' = elapsed
                       /\ UNCHANGED <<state, previous_state>>
             [] state = "green" ->
                  IF GreenEnds(elapsed)
                  THEN /\ previous_state' = "green"
                       /\ state' = "yellow"
                       /\ since_last_change' = 0
                  ELSE /\ since_last_change' = elapsed
                       /\ UNCHANGED <<state, previous_state>>
        /\ entered_from' = IF state' # state THEN Some(state) ELSE entered_from
        /\ UNCHANGED <<program, red_started, green_started, since_red_no_face_start,
                       since_green_no_car_start>>

Frame ==
    program = "main.py" /\
    (\E gap \in FrameGaps, num_faces \in NumFaces : frame(gap, num_faces))
        /\ UNCHANGED <<detector_vars, crossing_vars>>

NextLight == Frame

InitLight == main__init__ /\ NoDetector /\ NoCrossing

SpecLight == InitLight /\ [][NextLight]_vars

-----------------------------------------------------------------------------
(* src/test_index.py, "the real main.py": the traffic-light loop with car
   detection.  One step is one iteration of the while loop.  last_face_time
   and last_car_time are assigned and never read, and are left out. *)

RED_DURATION_Cars == 25

GREEN_DURATION_Cars == 25

YELLOW_DURATION_Cars == 2

NO_FACE_LIMIT_Cars == 5

NO_CAR_LIMIT == 5

NumCars == 0..MaxCars

\* green_started = False; red_started = False; state = "red";
\* previous_state = "red"; last_change = datetime.now();
\* green_no_car_start = datetime.now(); red_no_face_start is not bound yet
test_index_main__init__ ==
    /\ state = "red"
    /\ previous_state = "red"
    /\ since_last_change = 0
    /\ since_last_face = None
    /\ last_frame = None
    /\ entered_from = None
    /\ program = "test_index.py"
    /\ red_started = FALSE
    /\ green_started = FALSE
    /\ since_red_no_face_start = None
    /\ since_green_no_car_start = 0

\* now - red_no_face_start a frame later: None while the name is unbound
Later(age, gap) == IF age = None THEN None ELSE Some(Age(age[1] + gap))

\* if not red_started: red_no_face_start = now
\* if num_faces > 0: red_no_face_start = now
\* no_face_elapsed = (now - red_no_face_start).total_seconds()
NoFaceElapsed(started, num_faces, age, gap) ==
    IF ~started \/ num_faces > 0 THEN 0 ELSE Age(age[1] + gap)

\* if not green_started: green_no_car_start = now
\* if num_cars > 0: green_no_car_start = now
\* no_car_elapsed = (now - green_no_car_start).total_seconds()
NoCarElapsed(started, num_cars, age, gap) ==
    IF ~started \/ num_cars > 0 THEN 0 ELSE Age(age + gap)

\* Mutant of RedEndsEarly: no car is asked for.
RedEndsEarly_NoCarNeeded(no_face_elapsed, num_cars) ==
    no_face_elapsed >= NO_FACE_LIMIT_Cars

\* if no_face_elapsed >= NO_FACE_LIMIT and num_cars > 0
RedEndsEarly(no_face_elapsed, num_cars) ==
    no_face_elapsed >= NO_FACE_LIMIT_Cars /\ num_cars > 0

\* if no_car_elapsed >= NO_CAR_LIMIT and num_faces > 0
GreenEndsEarly(no_car_elapsed, num_faces) ==
    no_car_elapsed >= NO_CAR_LIMIT /\ num_faces > 0

\* one iteration of the loop, gap seconds after the last one
frame_cars(gap, num_faces, num_cars) ==
    LET elapsed == Age(since_last_change + gap)
        no_face_elapsed == NoFaceElapsed(red_started, num_faces,
                                         since_red_no_face_start, gap)
        no_car_elapsed == NoCarElapsed(green_started, num_cars,
                                       since_green_no_car_start, gap)
    IN  /\ CASE state = "red" ->
                  /\ since_red_no_face_start' = Some(no_face_elapsed)
                  /\ since_green_no_car_start' = Age(since_green_no_car_start + gap)
                  /\ last_frame' = Some([num_faces |-> num_faces, num_cars |-> num_cars,
                                         elapsed |-> elapsed,
                                         no_face_elapsed |-> no_face_elapsed])
                  /\ IF \/ RedEndsEarly(no_face_elapsed, num_cars)
                        \/ elapsed >= RED_DURATION_Cars
                     THEN /\ previous_state' = "red"
                          /\ state' = "yellow"
                          /\ since_last_change' = 0
                          /\ red_started' = FALSE
                     ELSE /\ since_last_change' = elapsed
                          /\ red_started' = TRUE
                          /\ UNCHANGED <<state, previous_state>>
                  /\ UNCHANGED green_started
             [] state = "yellow" ->
                  /\ since_red_no_face_start' = Later(since_red_no_face_start, gap)
                  /\ since_green_no_car_start' = Age(since_green_no_car_start + gap)
                  /\ last_frame' = Some([num_faces |-> num_faces, num_cars |-> num_cars,
                                         elapsed |-> elapsed])
                  /\ IF elapsed >= YELLOW_DURATION_Cars
                     THEN /\ state' = AfterYellow(previous_state)
                          /\ previous_state' = "yellow"
                          /\ since_last_change' = 0
                     ELSE /\ since_last_change' = elapsed
                          /\ UNCHANGED <<state, previous_state>>
                  /\ UNCHANGED <<red_started, green_started>>
             [] state = "green" ->
                  /\ since_green_no_car_start' = no_car_elapsed
                  /\ since_red_no_face_start' = Later(since_red_no_face_start, gap)
                  /\ last_frame' = Some([num_faces |-> num_faces, num_cars |-> num_cars,
                                         elapsed |-> elapsed,
                                         no_car_elapsed |-> no_car_elapsed])
                  /\ IF \/ GreenEndsEarly(no_car_elapsed, num_faces)
                        \/ elapsed >= GREEN_DURATION_Cars
                     THEN /\ previous_state' = "green"
                          /\ state' = "yellow"
                          /\ since_last_change' = 0
                          /\ green_started' = FALSE
                     ELSE /\ since_last_change' = elapsed
                          /\ green_started' = TRUE
                          /\ UNCHANGED <<state, previous_state>>
                  /\ UNCHANGED red_started
        /\ entered_from' = IF state' # state THEN Some(state) ELSE entered_from
        /\ UNCHANGED <<since_last_face, program>>

FrameCars ==
    program = "test_index.py" /\
    (\E gap \in FrameGaps, num_faces \in NumFaces, num_cars \in NumCars :
        frame_cars(gap, num_faces, num_cars))
        /\ UNCHANGED <<detector_vars, crossing_vars>>

NextCarLight == FrameCars

InitCarLight == test_index_main__init__ /\ NoDetector /\ NoCrossing

SpecCarLight == InitCarLight /\ [][NextCarLight]_vars

\* either of the two loops
NextLights == Frame \/ FrameCars

InitLights == InitLight \/ InitCarLight

SpecLights == InitLights /\ [][NextLights]_vars

\* Frames keep arriving and time advances: every iteration of either loop
\* reads a frame, runs two cascade detections at most and waits in
\* cv2.waitKey(1), so that again and again a frame comes later than the one
\* before it.
LaterFrame ==
    \/ /\ program = "main.py"
       /\ \E gap \in FrameGaps \ {0}, num_faces \in NumFaces : frame(gap, num_faces)
       /\ UNCHANGED <<detector_vars, crossing_vars>>
    \/ /\ program = "test_index.py"
       /\ \E gap \in FrameGaps \ {0}, num_faces \in NumFaces, num_cars \in NumCars :
             frame_cars(gap, num_faces, num_cars)
       /\ UNCHANGED <<detector_vars, crossing_vars>>

FairSpecLights == SpecLights /\ WF_vars(LaterFrame)

-----------------------------------------------------------------------------
(* Vocabulary of the properties *)

Min(a, b) == IF a < b THEN a ELSE b

\* the last n elements of seq
LastN(seq, n) == SubSeq(seq, Len(seq) - n + 1, Len(seq))

\* The window the i-th add_data_point since __init__/reset evaluates: the last
\* min(i, window_size) of the first i ingested values.
WindowAt(i) == LastN(SubSeq(ingested, 1, i), Min(i, config.window_size))

Results == 1..Len(detection_history)

IsAbstention(result) == "reason" \in DOMAIN result.metadata

InUnitInterval(x) == XLe(Zero, x) /\ XLe(x, One)

-----------------------------------------------------------------------------
(* C1..C3: window, history, reset *)

\* C1: with window_size N >= 1, after the M-th add_data_point since
\* construction or the last reset the window is the last min(M, N) ingested
\* values in insertion order, so it never holds more than N values.
C1_WindowIsLastValues ==
    config.window_size >= 1 =>
        /\ data_buffer = LastN(ingested, Min(Len(ingested), config.window_size))
        /\ Len(data_buffer) <= config.window_size

\* C1 witness: more values than the window holds were ingested, so the oldest
\* one was evicted and at least two remain in order.
C1_Witness ==
    /\ config.window_size >= 2
    /\ Len(ingested) > config.window_size
    /\ ingested[1] # ingested[Len(ingested)]
    /\ data_buffer[1] # ingested[1]

\* C2: every add_data_point appends exactly one result, so the history is as
\* long as the number of calls since construction or the last reset, and a
\* call that returns returns the result it appended.
C2_OneResultPerCall ==
    /\ Len(detection_history) = Len(ingested)
    /\ (last_call.op = "add_data_point" /\ last_call.returned # None) =>
           last_call.returned[1] = detection_history[Len(detection_history)]

\* C2 witness: a returned abstention follows a returned detection in the history.
C2_Witness ==
    /\ Len(detection_history) >= 2
    /\ last_call.op = "add_data_point"
    /\ last_call.returned # None
    /\ ~last_call.returned[1].detected
    /\ detection_history[Len(detection_history) - 1].detected

\* C3: a reset step leaves the window and the history empty, does not raise
\* and leaves the configuration as it was.
C3_ResetClears ==
    [][last_call'.op = "reset" =>
          /\ data_buffer' = <<>>
          /\ detection_history' = <<>>
          /\ last_call'.raised = "None"
          /\ config' = config]_vars

\* C3 witness: a reset was made after values had been ingested.
C3_Witness ==
    /\ last_call.op = "reset"
    /\ clock >= 2
    /\ callback_log # <<>>

-----------------------------------------------------------------------------
(* C4..C6: confidence range, Threshold strategy *)

\* C4: the confidence of every result in the history, for every strategy and
\* every configuration, lies within [0.0, 1.0].
C4_ConfidenceInUnitInterval ==
    \A i \in Results : InUnitInterval(detection_history[i].confidence)

\* C5: under Threshold with a threshold configured, every add_data_point(v)
\* yields detected = TRUE exactly when v >= threshold, whatever came before.
C5_ThresholdDetectsAtOrAbove ==
    (config.detection_type = THRESHOLD /\ config.threshold # None) =>
        \A i \in Results :
            detection_history[i].detected <=>
                ingested[i] * config.threshold[1].den >= config.threshold[1].num

\* C6: under Threshold with no threshold configured, every result is an
\* abstention with confidence 0.0 whose reason is "insufficient_configuration",
\* not the "insufficient_data" of a too-short window.
C6_MissingThresholdReason ==
    (config.detection_type = THRESHOLD /\ config.threshold = None) =>
        \A i \in Results :
            /\ ~detection_history[i].detected
            /\ detection_history[i].confidence = Zero
            /\ IsAbstention(detection_history[i])
            /\ detection_history[i].metadata.reason = "insufficient_configuration"

-----------------------------------------------------------------------------
(* C7: Pattern strategy *)

StrictlyIncreasing(w) == \A i, j \in 1..Len(w) : i < j => w[i] < w[j]

StrictlyDecreasing(w) == \A i, j \in 1..Len(w) : i < j => w[i] > w[j]

HasEqualNeighbours(w) == \E i \in 1..(Len(w) - 1) : w[i] = w[i + 1]

\* C7: under Pattern, a result computed on a window of at least 3 values is
\* detected exactly when that whole window (after eviction) is strictly
\* increasing or strictly decreasing; pattern names which, confidence is 1.0
\* when detected and 0.0 otherwise, and equal neighbours are never detected.
C7_PatternIsStrictMonotonicity ==
    config.detection_type = PATTERN =>
        \A i \in Results :
            LET w == WindowAt(i)
                r == detection_history[i]
            IN  Len(w) >= 3 =>
                  /\ r.detected <=> (StrictlyIncreasing(w) \/ StrictlyDecreasing(w))
                  /\ r.metadata.pattern =
                        (IF StrictlyIncreasing(w) THEN "increasing"
                         ELSE IF StrictlyDecreasing(w) THEN "decreasing"
                         ELSE "none")
                  /\ r.confidence = (IF r.detected THEN One ELSE Zero)
                  /\ HasEqualNeighbours(w) => ~r.detected

\* C7 witness: after an eviction the window is strictly decreasing and detected,
\* although the ingested sequence as a whole is not monotonic.
C7_Witness ==
    /\ config.detection_type = PATTERN
    /\ Len(ingested) > config.window_size
    /\ Len(data_buffer) >= 3
    /\ detection_history[Len(detection_history)].detected
    /\ detection_history[Len(detection_history)].metadata.pattern = "decreasing"
    /\ ~StrictlyDecreasing(ingested)

-----------------------------------------------------------------------------
(* C8, C9: Anomaly strategy.  For a window w of N values with sum S and sum *)
(* of squares Q: mean = S/N, |v - mean| = |N*v - S| / N and the population  *)
(* standard deviation is sqrt(N*Q - S*S) / N.                               *)

RECURSIVE SquareSum(_)
SquareSum(w) == IF w = <<>> THEN 0 ELSE w[1] * w[1] + SquareSum(Tail(w))

\* N * |v - mean| for the most recent value v of w
ScaledDeviation(w) == Abs(Len(w) * w[Len(w)] - SumSeq(w))

\* (N * stdDev) ^ 2, stdDev dividing by N
ScaledVariance(w) == Len(w) * SquareSum(w) - SumSeq(w) * SumSeq(w)

\* |v - mean| > sensitivity * stdDev, for sensitivity = num/den with den > 0
BeyondBoundary(w, sensitivity) ==
    IF sensitivity.num < 0
    THEN ScaledDeviation(w) > 0 \/ ScaledVariance(w) > 0
    ELSE (sensitivity.den * ScaledDeviation(w)) * (sensitivity.den * ScaledDeviation(w))
             > sensitivity.num * sensitivity.num * ScaledVariance(w)

\* sensitivity * stdDev = 0
BoundaryIsZero(w, sensitivity) == sensitivity.num = 0 \/ ScaledVariance(w) = 0

AllEqual(w) == \A i, j \in 1..Len(w) : w[i] = w[j]

\* C8: under Anomaly, a result computed on a window of at least 3 values is
\* detected exactly when |v - mean| > sensitivity * stdDev, with v the most
\* recent value and mean and population stdDev taken over the whole window.
C8_AnomalyIsBeyondBoundary ==
    config.detection_type = ANOMALY =>
        \A i \in Results :
            LET w == WindowAt(i)
            IN  Len(w) >= 3 =>
                  (detection_history[i].detected <=> BeyondBoundary(w, config.sensitivity))

\* C8 witness: one window is detected and, after an eviction, a window whose
\* most recent value differs from the mean is not.
C8_Witness ==
    /\ config.detection_type = ANOMALY
    /\ config.sensitivity = R(1)
    /\ Len(ingested) > config.window_size
    /\ Len(data_buffer) >= 3
    /\ \E i \in Results : detection_history[i].detected
    /\ ~detection_history[Len(detection_history)].detected
    /\ ScaledDeviation(data_buffer) > 0

\* C9 as claimed: under Anomaly, whenever the boundary sensitivity * stdDev is
\* 0 the result has confidence 0.0 and detected = FALSE, no division by zero
\* occurs, and a value that differs from a zero-variance window before it
\* gets a confidence within [0.0, 1.0].
C9_ZeroBoundaryNeverDetected ==
    config.detection_type = ANOMALY =>
        /\ last_call.raised # "ZeroDivisionError"
        /\ \A i \in Results :
              LET w == WindowAt(i)
                  r == detection_history[i]
              IN  Len(w) >= 3 =>
                    /\ BoundaryIsZero(w, config.sensitivity) =>
                          (r.confidence = Zero /\ ~r.detected)
                    /\ (AllEqual(SubSeq(w, 1, Len(w) - 1)) /\ ~AllEqual(w)) =>
                          InUnitInterval(r.confidence)

\* C9 as amended: under Anomaly, whenever the boundary sensitivity * stdDev is
\* 0 the result has confidence 0.0 and is detected exactly when the most
\* recent value differs from the mean (so not when all values equal the mean,
\* but with sensitivity = 0 whenever v # mean); no division by zero occurs,
\* and a value that differs from a zero-variance window before it gets a
\* confidence within [0.0, 1.0].
C9_ZeroBoundaryZeroConfidence ==
    config.detection_type = ANOMALY =>
        /\ last_call.raised # "ZeroDivisionError"
        /\ \A i \in Results :
              LET w == WindowAt(i)
                  r == detection_history[i]
              IN  Len(w) >= 3 =>
                    /\ BoundaryIsZero(w, config.sensitivity) =>
                          /\ r.confidence = Zero
                          /\ r.detected <=> ScaledDeviation(w) > 0
                    /\ (AllEqual(SubSeq(w, 1, Len(w) - 1)) /\ ~AllEqual(w)) =>
                          InUnitInterval(r.confidence)

\* C9 witness: a window of identical values was evaluated (boundary 0, not
\* detected, confidence 0.0) and the next value differs from it.
C9_Witness ==
    /\ config.detection_type = ANOMALY
    /\ config.sensitivity # R(0)
    /\ Len(detection_history) >= 4
    /\ Len(WindowAt(Len(ingested) - 1)) >= 3
    /\ AllEqual(WindowAt(Len(ingested) - 1))
    /\ ~AllEqual(data_buffer)
    /\ Len(data_buffer) >= 3

-----------------------------------------------------------------------------
(* C10: Change strategy *)

\* C10: under Change, a result computed on a window of at least 2 values has
\* relative_change = |curr - prev| / |prev| when prev # 0 and |curr| when
\* prev = 0, prev and curr being the two most recent values, and is detected
\* exactly when relative_change > sensitivity; no division by zero occurs.
C10_ChangeIsRelative ==
    config.detection_type = CHANGE =>
        /\ last_call.raised # "ZeroDivisionError"
        /\ \A i \in Results :
              Len(WindowAt(i)) >= 2 =>
                LET prev == ingested[i - 1]
                    curr == ingested[i]
                    r == detection_history[i]
                    rc == r.metadata.relative_change
                    s == config.sensitivity
                IN  IF prev # 0
                    THEN /\ rc.num * Abs(prev) = Abs(curr - prev) * rc.den
                         /\ r.detected <=> s.den * Abs(curr - prev) > s.num * Abs(prev)
                    ELSE /\ rc.num = Abs(curr) * rc.den
                         /\ r.detected <=> s.den * Abs(curr) > s.num

\* C10 witness: a change from a non-zero value is detected, a change from a
\* non-zero value equal to the sensitivity is not, and a change from 0 is
\* measured by the absolute-value fallback.
C10_Witness ==
    /\ config.detection_type = CHANGE
    /\ RLt(R(0), config.sensitivity)
    /\ Len(detection_history) >= 4
    /\ Len(ingested) = Len(detection_history)
    /\ \E i \in 2..Len(detection_history) :
          ingested[i - 1] # 0 /\ detection_history[i].detected
    /\ \E i \in 2..Len(detection_history) :
          /\ ingested[i - 1] = 0
          /\ ingested[i] # 0
          /\ detection_history[i].metadata.relative_change = R(Abs(ingested[i]))
    /\ \E i \in 2..Len(detection_history) :
          /\ ingested[i - 1] # 0
          /\ ~detection_history[i].detected
          /\ detection_history[i].metadata.relative_change = config.sensitivity

-----------------------------------------------------------------------------
(* C11, C12: the callback *)

IsDetected(result) == result.detected

\* the history entries with detected = TRUE, in order
Detections == SelectSeq(detection_history, IsDetected)

\* C11: with a callback configured, each add_data_point calls it exactly once,
\* within the call, with the result just appended when that result is
\* detected, and does not call it otherwise; reset does not call it.  So since
\* construction or the last reset the callback was called once for each
\* detected entry of the history, in order, and without a callback never.
C11_CallbackOncePerDetection ==
    /\ [](/\ config.callback = "None" => callback_log = <<>>
          /\ config.callback # "None" =>
                /\ Len(Detections) <= Len(callback_log)
                /\ Detections = LastN(callback_log, Len(Detections)))
    /\ [][IF clock' # clock
          THEN LET result == detection_history'[Len(detection_history')]
               IN  IF result.detected /\ config.callback # "None"
                   THEN callback_log' = Append(callback_log, result)
                   ELSE callback_log' = callback_log
          ELSE callback_log' = callback_log]_vars

\* C11 witness: without a reset, the callback was called for the one detected
\* result and not for the two others.
C11_Witness ==
    /\ config.callback = "returns"
    /\ Len(ingested) = clock
    /\ Len(detection_history) = 3
    /\ Len(callback_log) = 1
    /\ detection_history[2].detected
    /\ callback_log[1] = detection_history[2]
    /\ ~IsAbstention(detection_history[3])

\* C12: when the callback run by add_data_point raises, the exception leaves
\* add_data_point (nothing is returned), the callback is not called again,
\* and nothing is rolled back: the window with the ingested value as its
\* newest element and the history with the result as its last entry are what
\* the callback saw and what the detector holds afterwards.
C12_CallbackFailurePropagates ==
    (last_call.op = "add_data_point" /\ config.callback = "raises"
        /\ callback_saw # None) =>
        /\ last_call.raised = "CallbackError"
        /\ last_call.returned = None
        /\ callback_saw[1] = CallbackView(data_buffer, detection_history)
        /\ data_buffer # <<>>
        /\ data_buffer[Len(data_buffer)] = last_call.value
        /\ callback_log # <<>>
        /\ detection_history # <<>>
        /\ detection_history[Len(detection_history)] = callback_log[Len(callback_log)]
        /\ Cardinality({j \in 1..Len(callback_log) :
                           callback_log[j] = callback_log[Len(callback_log)]}) = 1

\* C12 witness: the callback raised on the second detection after an
\* undetected value.
C12_Witness ==
    /\ last_call.raised = "CallbackError"
    /\ Len(callback_log) = 2
    /\ Len(detection_history) = 3
    /\ Len(data_buffer) >= 2

-----------------------------------------------------------------------------
(* C13, C14: get_statistics *)

\* n * sum
STimes(sum, n) ==
    {u \in {[rad |-> v.rad, coef |-> RMul(v.coef, R(n))] : v \in sum} :
        ~RIsZero(u.coef)}

\* C13: get_statistics never raises, on a fresh or reset detector either,
\* and returns total_checks = the length of the history, positive_detections
\* = the number of its detected entries, detection_rate = positive / total
\* (0.0 for an empty history), average_confidence = the mean confidence of
\* the history (0.0 for an empty history) and buffer_size = the length of
\* the window.
C13_StatisticsOfHistory ==
    last_call.op = "get_statistics" =>
        /\ last_call.raised = "None"
        /\ last_call.returned # None
        /\ LET stats == last_call.returned[1]
               total == Len(detection_history)
               positive == Cardinality({i \in Results : detection_history[i].detected})
           IN  /\ stats.total_checks = total
               /\ stats.positive_detections = positive
               /\ stats.buffer_size = Len(data_buffer)
               /\ IF total > 0
                  THEN /\ stats.detection_rate.den > 0
                       /\ stats.detection_rate.num * total
                             = positive * stats.detection_rate.den
                       /\ STimes(stats.average_confidence, total)
                             = SumConfidence(detection_history)
                  ELSE /\ stats.detection_rate = R(0)
                       /\ stats.average_confidence = SZero

\* C13 witness: statistics over three results, one of them detected, with a
\* mean confidence that is neither 0 nor 1, and a window shorter than the
\* history.
C13_Witness ==
    /\ last_call.op = "get_statistics"
    /\ last_call.returned # None
    /\ last_call.returned[1].total_checks = 3
    /\ last_call.returned[1].positive_detections = 1
    /\ last_call.returned[1].buffer_size = 2
    /\ last_call.returned[1].average_confidence
          \notin {SZero, SAdd(SZero, One)}

\* C14: get_statistics only reads: a call leaves the window, the history and
\* the configuration as they were, and a call that follows another
\* get_statistics call with no add_data_point or reset between them returns
\* the same dictionary.
C14_StatisticsIsPureRead ==
    [][last_call'.op = "get_statistics" =>
          /\ UNCHANGED <<config, data_buffer, detection_history>>
          /\ last_call'.raised = "None"
          /\ last_call.op = "get_statistics" => last_call'.returned = last_call.returned]_vars

\* C14 witness: statistics were read from a detector with two detections in
\* its history and a window of one value.
C14_Witness ==
    /\ last_call.op = "get_statistics"
    /\ last_call.returned # None
    /\ last_call.returned[1].positive_detections = 2
    /\ Len(detection_history) = 2
    /\ Len(data_buffer) = 1
    /\ config.window_size = 1

-----------------------------------------------------------------------------
(* C15: too few values *)

\* the number of values below which a strategy abstains
NeededValues(detection_type) ==
    CASE detection_type = PATTERN -> 3
      [] detection_type = ANOMALY -> 3
      [] detection_type = CHANGE -> 2
      [] OTHER -> 0

\* C15: under Pattern, Anomaly and Change, an add_data_point that evaluates a
\* window of fewer values than the strategy needs (3, 3, 2) does not raise:
\* it returns, and appends to the history, the result detected = FALSE,
\* confidence = 0.0, reason = "insufficient_data", after pushing the value to
\* the window, and it does not call the callback.
C15_InsufficientDataAbstains ==
    /\ \A i \in Results :
          Len(WindowAt(i)) < NeededValues(config.detection_type) =>
              /\ ~detection_history[i].detected
              /\ detection_history[i].confidence = Zero
              /\ detection_history[i].metadata = [reason |-> "insufficient_data"]
    /\ \A j \in 1..Len(callback_log) :
          config.detection_type \in {PATTERN, ANOMALY, CHANGE} =>
              "reason" \notin DOMAIN callback_log[j].metadata
    /\ (/\ last_call.op = "add_data_point"
        /\ Len(data_buffer) < NeededValues(config.detection_type)) =>
            /\ last_call.raised = "None"
            /\ Len(detection_history) = Len(ingested)
            /\ last_call.returned = Some(detection_history[Len(detection_history)])
            /\ IsAbstention(last_call.returned[1])
            /\ callback_saw = None
            /\ config.window_size >= 1 =>
                  /\ data_buffer # <<>>
                  /\ data_buffer[Len(data_buffer)] = last_call.value

\* C15 witness: with a callback configured, the second value under Pattern
\* was pushed and answered by an abstention, and the callback was not called.
C15_Witness ==
    /\ config.detection_type = PATTERN
    /\ config.callback = "returns"
    /\ last_call.op = "add_data_point"
    /\ data_buffer = <<0, 1>>
    /\ Len(detection_history) = 2
    /\ IsAbstention(detection_history[2])
    /\ callback_log = <<>>

-----------------------------------------------------------------------------
(* C16: validation of the configuration *)

\* C16: constructing a Detector with a detection type that is not one of the
\* four or with a window_size below 1 fails, so that no Detector exists, and
\* no add_data_point runs, with such a configuration.  (Detector.__init__
\* stores the configuration unchecked: violated.)
C16_ConfigValidated ==
    /\ config.detection_type \in DetectionType
    /\ config.window_size >= 1

-----------------------------------------------------------------------------
(* C17: zero threshold, zero sensitivity *)

\* C17: with threshold = 0 under Threshold, or sensitivity = 0 under Change,
\* add_data_point never raises; every result has confidence 0.0 and detected
\* is the usual comparison: v >= 0 under Threshold, relative change > 0 under
\* Change.  (Violated under Threshold with window_size = 0, where the value
\* is evicted before it is compared.)
C17_ZeroDivisorFallback ==
    /\ last_call.raised # "ZeroDivisionError"
    /\ (config.detection_type = THRESHOLD /\ config.threshold = Some(R(0))) =>
          \A i \in Results :
              /\ detection_history[i].confidence = Zero
              /\ detection_history[i].detected <=> ingested[i] >= 0
    /\ (config.detection_type = CHANGE /\ config.sensitivity = R(0)) =>
          \A i \in Results :
              /\ detection_history[i].confidence = Zero
              /\ Len(WindowAt(i)) >= 2 =>
                    (detection_history[i].detected <=>
                        IF ingested[i - 1] # 0
                        THEN ingested[i] # ingested[i - 1]
                        ELSE ingested[i] # 0)

-----------------------------------------------------------------------------
(* C18: values that are not finite *)

\* C18: add_data_point of a value that is not finite (nan, inf, -inf) takes
\* an error path of its own: it raises, or returns a result whose metadata
\* flags the error, and the value is never stored in the window nor compared
\* with the threshold as a number.  (add_data_point tests nothing: violated.)
C18_NonFiniteRejected ==
    /\ \A k \in 1..Len(data_buffer) : IsFinite(data_buffer[k])
    /\ (last_call.op = "add_data_point" /\ ~IsFinite(last_call.value)) =>
          \/ last_call.raised # "None"
          \/ /\ last_call.returned # None
             /\ "error" \in DOMAIN last_call.returned[1].metadata

-----------------------------------------------------------------------------
(* C19: confidence under Threshold *)

\* C19: under Threshold with a threshold t # 0, the result for a value v has
\* confidence min(1.0, |v - t| / |t|) whether detected or not; v > t is
\* detected with a confidence above 0 and v = t is detected with confidence
\* 0.0.  (Violated with window_size = 0, where the value is evicted before
\* it is compared.)
C19_ThresholdConfidence ==
    (/\ config.detection_type = THRESHOLD
     /\ config.threshold # None
     /\ ~RIsZero(config.threshold[1])) =>
        \A i \in Results :
            LET t == config.threshold[1]
                distance == Abs(ingested[i] * t.den - t.num)    \* |v - t| * t.den
                size == Abs(t.num)                               \* |t| * t.den
                r == detection_history[i]
            IN  /\ IF distance >= size
                   THEN r.confidence = One
                   ELSE /\ r.confidence.sgn = Sign(distance)
                        /\ r.confidence.sq.num * size * size
                              = distance * distance * r.confidence.sq.den
                /\ ingested[i] * t.den > t.num => r.detected /\ r.confidence.sgn = 1
                /\ ingested[i] * t.den = t.num => r.detected /\ r.confidence = Zero

-----------------------------------------------------------------------------
(* C20: the configuration is fixed *)

\* C20: no operation of the detector (add_data_point, reset, get_statistics)
\* changes the configuration it was constructed with; what changes is the
\* window and the history.
C20_ConfigNeverChanges ==
    [][UNCHANGED <<config, _last_detection_time>>]_vars

\* C20 witness: values were added, the detector was reset and its statistics
\* were read, under a configuration with a threshold, a window size and a
\* callback of its own.
C20_Witness ==
    /\ config = DetectionConfig(THRESHOLD, Some(R(2)), 2, DefaultSensitivity, "raises")
    /\ clock = 3
    /\ ingested = <<>>
    /\ last_call.op = "get_statistics"

-----------------------------------------------------------------------------
(* C21: the history is append-only *)

IsPrefix(s, t) == Len(s) <= Len(t) /\ SubSeq(t, 1, Len(s)) = s

\* C21: between resets the history is append-only: every add_data_point (and
\* every get_statistics) leaves each earlier entry as it was and where it
\* was, the history before the call being a prefix of the history after it;
\* reset alone removes entries.
C21_HistoryAppendOnly ==
    [][last_call'.op # "reset" => IsPrefix(detection_history, detection_history')]_vars

\* C21 witness: a third result was appended, after an earlier reset, to a
\* history whose first entries differ from it.
C21_Witness ==
    /\ last_call.op = "add_data_point"
    /\ clock = 4
    /\ Len(detection_history) = 3
    /\ detection_history[1].detected
    /\ ~detection_history[2].detected
    /\ detection_history[3].detected

-----------------------------------------------------------------------------
(* C22: reset against construction *)

RECURSIVE FreshRun(_, _)
\* The window and the history of a detector constructed with cfg and then
\* given the values, one add_data_point each, all at time 0.
FreshRun(cfg, values) ==
    IF values = <<>> THEN [data_buffer |-> <<>>, detection_history |-> <<>>]
    ELSE LET before == FreshRun(cfg, SubSeq(values, 1, Len(values) - 1))
             buf == MaintainWindow(Append(before.data_buffer, values[Len(values)]),
                                   cfg.window_size)
             result == _detect(buf, cfg, 0)
         IN  [data_buffer |-> buf,
              detection_history |->
                  IF IsException(result) THEN before.detection_history
                  ELSE StoreResult(before.detection_history, result)]

\* a result without its timestamp
Verdict(result) ==
    [detected |-> result.detected, confidence |-> result.confidence,
     metadata |-> result.metadata]

Verdicts(history) == [i \in 1..Len(history) |-> Verdict(history[i])]

\* C22: a detector that was reset answers as a freshly constructed detector
\* with the same configuration does: whatever was ingested before the reset,
\* the window, the results (detected, confidence, metadata) and the
\* statistics after the values ingested since are those of a fresh detector
\* given these values alone.
C22_ResetIsFresh ==
    LET fresh == FreshRun(config, ingested)
    IN  /\ data_buffer = fresh.data_buffer
        /\ Verdicts(detection_history) = Verdicts(fresh.detection_history)
        /\ (last_call.op = "add_data_point" /\ last_call.returned # None) =>
              Verdict(last_call.returned[1])
                 = Verdict(fresh.detection_history[Len(fresh.detection_history)])
        /\ last_call.op = "get_statistics" =>
              last_call.returned
                 = Some(Statistics(fresh.detection_history, fresh.data_buffer))

\* C22 witness: two values were ingested and detected after a reset that
\* followed two other values, and the statistics were read.
C22_Witness ==
    /\ clock = 4
    /\ Len(ingested) = 2
    /\ Len(data_buffer) = 2
    /\ detection_history[2].detected
    /\ callback_log # <<>>
    /\ callback_log[1].timestamp < 2
    /\ last_call.op = "get_statistics"

-----------------------------------------------------------------------------
(* C23..C25: FaceDetectionCrossing *)

\* the last step was an update_crossing_status with enough faces
UpdatedWithEnough ==
    /\ last_update # None
    /\ last_update[1].num_faces >= min_faces

\* C23: a FaceDetectionCrossing starts with isCrossing = False and no end
\* time; every update_crossing_status(n) with n >= min_faces leaves
\* isCrossing = True and crossing_end_time = the current time plus
\* crossing_duration, whether the crossing was active before or not, so that
\* with time not going backwards such an update never moves the end time
\* back.  (Violated when line 63 raises OverflowError: no end time is set.)
C23_EnoughFacesStartTimer ==
    /\ [](/\ last_update = None => ~isCrossing /\ crossing_end_time = None
          /\ UpdatedWithEnough =>
                /\ isCrossing
                /\ crossing_end_time = Some(last_update[1].time + crossing_duration))
    /\ [][(/\ last_update' # last_update
           /\ last_update'[1].num_faces >= min_faces) =>
              /\ isCrossing'
              /\ crossing_end_time' = Some(now + crossing_duration)
              /\ crossing_end_time # None => crossing_end_time'[1] >= crossing_end_time[1]]_vars

\* C23 witness: an update with enough faces, made a second after the
\* construction, left the crossing active with an end time two seconds on.
C23_Witness ==
    /\ min_faces = 2
    /\ crossing_duration = 2
    /\ last_update = Some([num_faces |-> 2, time |-> 1])
    /\ last_enough = Some(1)
    /\ now = 1
    /\ crossing_end_time = Some(3)

\* C24: update_crossing_status(n) with n < min_faces leaves an inactive
\* crossing inactive; it leaves an active crossing active, with its end time,
\* while the current time is before crossing_end_time; and at or after
\* crossing_end_time it sets isCrossing to False and crossing_end_time to
\* None.
C24_TooFewFacesExpireTimer ==
    [][(/\ last_update' # last_update
        /\ last_update'[1].num_faces < min_faces) =>
           IF ~isCrossing
           THEN ~isCrossing' /\ crossing_end_time' = crossing_end_time
           ELSE IF now < crossing_end_time[1]
           THEN isCrossing' /\ crossing_end_time' = crossing_end_time
           ELSE ~isCrossing' /\ crossing_end_time' = None]_vars

\* C24 witness: an update with too few faces, made at the very end time of
\* an active crossing, ended it.
C24_Witness ==
    /\ min_faces = 1
    /\ crossing_duration = 2
    /\ last_enough = Some(1)
    /\ last_update = Some([num_faces |-> 0, time |-> 3])
    /\ ~isCrossing
    /\ crossing_end_time = None

\* C25: with time not going backwards, isCrossing is True after every update
\* made less than crossing_duration after the last update that saw at least
\* min_faces faces, and False after an update with fewer faces made at or
\* after that deadline (and while no update has seen enough faces); the
\* passage of time alone changes neither isCrossing nor the end time.
C25_CrossingLastsDuration ==
    /\ [](/\ last_enough = None => ~isCrossing
          /\ (last_enough # None /\ last_update # None) =>
                LET deadline == last_enough[1] + crossing_duration
                IN  /\ last_update[1].time < deadline => isCrossing
                    /\ (/\ last_update[1].num_faces < min_faces
                        /\ last_update[1].time >= deadline) => ~isCrossing)
    /\ [][now' # now => UNCHANGED <<isCrossing, crossing_end_time>>]_vars

\* C25 witness: the deadline has passed and the crossing is still active,
\* no update having been made since an update with too few faces before it.
C25_Witness ==
    /\ min_faces = 2
    /\ crossing_duration = 1
    /\ last_enough = Some(1)
    /\ last_update = Some([num_faces |-> 1, time |-> 1])
    /\ now = 4
    /\ isCrossing

-----------------------------------------------------------------------------
(* C26: the traffic-light loop of main.py *)

\* C26: in the loop of main.py the red phase ends before RED_DURATION only
\* at a frame at which no face has been seen for NO_FACE_LIMIT seconds or
\* more and the red phase has lasted NO_FACE_LIMIT seconds or more; at a
\* frame with a face in it red ends if and only if elapsed >= RED_DURATION;
\* and the green phase ends only with elapsed >= GREEN_DURATION.
C26_OnlyRedIsShortened ==
    [][/\ (state = "red" /\ state' # "red" /\ last_frame'[1].elapsed < RED_DURATION) =>
            /\ last_frame'[1].no_face_time >= NO_FACE_LIMIT
            /\ last_frame'[1].elapsed >= NO_FACE_LIMIT
            /\ last_frame'[1].num_faces = 0
       /\ (state = "red" /\ last_frame'[1].num_faces > 0) =>
            (state' # "red" <=> last_frame'[1].elapsed >= RED_DURATION)
       /\ (state = "green" /\ state' # "green") =>
            last_frame'[1].elapsed >= GREEN_DURATION]_vars

\* C26 witness: the second red phase was ended after NO_FACE_LIMIT seconds,
\* the last face having been seen during the green phase before it.
C26_Witness ==
    /\ state = "yellow"
    /\ previous_state = "red"
    /\ last_frame # None
    /\ last_frame[1].elapsed = NO_FACE_LIMIT
    /\ last_frame[1].no_face_time = NO_FACE_LIMIT + 1

-----------------------------------------------------------------------------
(* C27: window and history in lockstep *)

\* C27: with window_size >= 1 the window is as long as the shorter of the
\* history and window_size in every reachable state: the two grow together
\* until the window is full, the history is never the shorter one, and they
\* are empty together.  (Violated when add_data_point raises OverflowError
\* after the value was pushed and before a result is appended.)
C27_WindowLengthFollowsHistory ==
    config.window_size >= 1 =>
        /\ Len(data_buffer) = Min(Len(detection_history), config.window_size)
        /\ Len(detection_history) >= Len(data_buffer)
        /\ data_buffer = <<>> <=> detection_history = <<>>

-----------------------------------------------------------------------------
(* C28: the verdict depends on the window alone *)

\* C28: detected, confidence and metadata of a result are a function of the
\* configuration and of the window it was computed on, the last
\* min(M, window_size) ingested values: results computed on equal windows
\* are equal but for their timestamps, whatever the history, the values
\* evicted and the callback calls before them, and each is what the strategy
\* gives on its window alone.
C28_VerdictDependsOnWindow ==
    /\ \A i, j \in Results :
          WindowAt(i) = WindowAt(j) =>
              Verdict(detection_history[i]) = Verdict(detection_history[j])
    /\ \A i \in Results :
          Verdict(detection_history[i]) = Verdict(_detect(WindowAt(i), config, 0))

\* C28 witness: the second and the fourth result were computed on the same
\* window of two values, after different evicted values, different
\* histories and, for the fourth, a call of the callback.
C28_Witness ==
    /\ config.window_size = 2
    /\ config.callback = "returns"
    /\ Len(detection_history) = 4
    /\ WindowAt(2) = WindowAt(4)
    /\ WindowAt(3) # WindowAt(2)
    /\ detection_history[3].detected
    /\ callback_log # <<>>
    /\ ~detection_history[1].detected

-----------------------------------------------------------------------------
(* C29: a window below the strategy's minimum *)

\* The window can never hold the values the configured strategy needs.
WindowBelowMinimum(cfg) ==
    \/ cfg.detection_type = PATTERN /\ cfg.window_size < MinPatternWindow
    \/ cfg.detection_type = ANOMALY /\ cfg.window_size < MinAnomalyWindow
    \/ cfg.detection_type = CHANGE /\ cfg.window_size < MinChangeWindow

\* C29: with window_size below the minimum of the strategy (3 for Pattern
\* and Anomaly, 2 for Change) every call of add_data_point abstains, however
\* many values are ingested: no call raises, every result is an abstention
\* with detected false, the callback is never called, and get_statistics
\* reports positive_detections = 0.
C29_SmallWindowAlwaysAbstains ==
    WindowBelowMinimum(config) =>
        /\ \A i \in Results :
              /\ IsAbstention(detection_history[i])
              /\ ~detection_history[i].detected
        /\ last_call.op = "add_data_point" =>
              /\ last_call.raised = "None"
              /\ last_call.returned # None
              /\ IsAbstention(last_call.returned[1])
              /\ ~last_call.returned[1].detected
        /\ callback_log = <<>>
        /\ Len(data_buffer) <= config.window_size
        /\ (last_call.op = "get_statistics" /\ last_call.returned # None) =>
              last_call.returned[1].positive_detections = 0

\* C29 witness: a Change detector with a window of one value and a callback
\* has ingested four values that change every time, and its statistics have
\* been read.
C29_Witness ==
    /\ config.detection_type = CHANGE
    /\ config.window_size = 1
    /\ config.callback # "None"
    /\ Len(detection_history) = 4
    /\ \A i \in 2..4 : ingested[i] # ingested[i - 1]
    /\ ingested[Len(ingested)] # 0
    /\ last_call.op = "get_statistics"
    /\ last_call.returned # None
    /\ last_call.returned[1].total_checks = 4

-----------------------------------------------------------------------------
(* C30: the Change confidence saturates at the detection boundary *)

\* C30: under the Change strategy with sensitivity > 0, every result with
\* detected = true has confidence exactly 1.0, and every result with
\* confidence < 1.0 has detected = false; the same for the result returned
\* by the last call.
C30_ChangeConfidenceSaturates ==
    (config.detection_type = CHANGE /\ RLt(R(0), config.sensitivity)) =>
        /\ \A i \in Results :
              /\ detection_history[i].detected =>
                    detection_history[i].confidence = One
              /\ XLt(detection_history[i].confidence, One) =>
                    ~detection_history[i].detected
        /\ (last_call.op = "add_data_point" /\ last_call.returned # None) =>
              /\ last_call.returned[1].detected =>
                    last_call.returned[1].confidence = One
              /\ XLt(last_call.returned[1].confidence, One) =>
                    ~last_call.returned[1].detected

\* C30 witness: one detector with a positive sensitivity has a detected
\* result of confidence 1.0 and an undetected result of a smaller change,
\* whose confidence lies strictly between 0.0 and 1.0.
C30_Witness ==
    /\ config.detection_type = CHANGE
    /\ RLt(R(0), config.sensitivity)
    /\ \E i \in Results :
          /\ detection_history[i].detected
          /\ detection_history[i].confidence = One
    /\ \E i \in Results :
          /\ ~detection_history[i].detected
          /\ XLt(Zero, detection_history[i].confidence)
          /\ XLt(detection_history[i].confidence, One)

-----------------------------------------------------------------------------
(* C31: isCrossing and crossing_end_time *)

\* C31: in every state of a FaceDetectionCrossing reached by construction
\* and update_crossing_status calls, isCrossing is True if and only if
\* crossing_end_time is not None.  (Violated when line 63 raises
\* OverflowError after line 59 set isCrossing.)
C31_CrossingIffEndTime == isCrossing <=> crossing_end_time # None

-----------------------------------------------------------------------------
(* C32: the cycle of the light *)

\* C32: in both loops the light starts red, and a frame either leaves the
\* state alone or makes one of the changes red -> yellow, yellow -> green,
\* green -> yellow, yellow -> red: red and green never follow each other, a
\* yellow entered from red leads to green and a yellow entered from green
\* leads to red.
C32_LightCycle ==
    /\ [](last_frame = None => state = "red")
    /\ [](state = "yellow" => entered_from \in {Some("red"), Some("green")})
    /\ [][\/ state' = state
          \/ state = "red" /\ state' = "yellow"
          \/ state = "green" /\ state' = "yellow"
          \/ /\ state = "yellow"
             /\ entered_from = Some("red")
             /\ state' = "green"
          \/ /\ state = "yellow"
             /\ entered_from = Some("green")
             /\ state' = "red"]_vars

\* C32 witness: the loop with car detection is red for the second time, after
\* a yellow that was entered from green.
C32_Witness ==
    /\ program = "test_index.py"
    /\ state = "red"
    /\ entered_from = Some("yellow")
    /\ previous_state = "yellow"
    /\ since_last_change > 0

\* C32, second witness: the loop of main.py is green, after a yellow that
\* was entered from red.
C32_WitnessMain ==
    /\ program = "main.py"
    /\ state = "green"
    /\ entered_from = Some("yellow")

-----------------------------------------------------------------------------
(* C33: no light is held forever *)

RedDuration == IF program = "main.py" THEN RED_DURATION ELSE RED_DURATION_Cars

GreenDuration == IF program = "main.py" THEN GREEN_DURATION ELSE GREEN_DURATION_Cars

YellowDuration == IF program = "main.py" THEN YELLOW_DURATION ELSE YELLOW_DURATION_Cars

\* C33: in both loops, while frames keep arriving and time advances, a
\* frame with elapsed >= RED_DURATION ends red, a frame with elapsed >=
\* GREEN_DURATION ends green and a frame with elapsed >= YELLOW_DURATION ends
\* yellow, whatever faces and cars are in it; so no state is held forever,
\* and red and green each come again and again.
C33_NoLightHeldForever ==
    /\ [][/\ (state = "red" /\ last_frame'[1].elapsed >= RedDuration) =>
               state' = "yellow"
          /\ (state = "green" /\ last_frame'[1].elapsed >= GreenDuration) =>
               state' = "yellow"
          /\ (state = "yellow" /\ last_frame'[1].elapsed >= YellowDuration) =>
               state' # "yellow"]_vars
    /\ []<>(state = "red")
    /\ []<>(state = "green")
    /\ []<>(state = "yellow")

\* C33 witness: the loop of main.py left red at a frame with a face in it,
\* RED_DURATION seconds or more after red began.
C33_Witness ==
    /\ program = "main.py"
    /\ state = "yellow"
    /\ previous_state = "red"
    /\ last_frame # None
    /\ last_frame[1].num_faces > 0
    /\ last_frame[1].elapsed >= RED_DURATION

-----------------------------------------------------------------------------
(* C34: the loop with car detection *)

\* C34: in the loop of test_index.py red ends before RED_DURATION only at a
\* frame with a car in it and no face, the no-face timer of the red phase
\* being at NO_FACE_LIMIT or more; green ends before GREEN_DURATION only at
\* a frame with a face in it and no car, the no-car timer of the green phase
\* being at NO_CAR_LIMIT or more.  Each timer restarts at the first frame of
\* its phase and at every frame with a face (a car) in it, runs with the
\* time otherwise, and so never shows more than the phase has lasted.
C34_EarlyEndsNeedCarOrFace ==
    /\ [](state # "red" => ~red_started)
    /\ [](state # "green" => ~green_started)
    /\ [][LET f == last_frame'[1]
          IN  /\ state = "red" =>
                    /\ (~red_started \/ f.num_faces > 0) => f.no_face_elapsed = 0
                    /\ (red_started /\ f.num_faces = 0) =>
                          f.no_face_elapsed - since_red_no_face_start[1]
                              = f.elapsed - since_last_change
                    /\ f.no_face_elapsed <= f.elapsed
                    /\ (state' # "red" /\ f.elapsed < RED_DURATION_Cars) =>
                          /\ f.num_cars > 0
                          /\ f.num_faces = 0
                          /\ f.no_face_elapsed >= NO_FACE_LIMIT_Cars
              /\ state = "green" =>
                    /\ (~green_started \/ f.num_cars > 0) => f.no_car_elapsed = 0
                    /\ (green_started /\ f.num_cars = 0) =>
                          f.no_car_elapsed - since_green_no_car_start
                              = f.elapsed - since_last_change
                    /\ f.no_car_elapsed <= f.elapsed
                    /\ (state' # "green" /\ f.elapsed < GREEN_DURATION_Cars) =>
                          /\ f.num_faces > 0
                          /\ f.num_cars = 0
                          /\ f.no_car_elapsed >= NO_CAR_LIMIT]_vars

\* C34 witness: green was ended early, by a face, NO_CAR_LIMIT seconds after
\* the last car of the green phase and later than that after green began.
C34_Witness ==
    /\ program = "test_index.py"
    /\ state = "yellow"
    /\ previous_state = "green"
    /\ last_frame # None
    /\ last_frame[1].num_faces > 0
    /\ last_frame[1].no_car_elapsed = NO_CAR_LIMIT
    /\ last_frame[1].elapsed > NO_CAR_LIMIT + 1
    /\ last_frame[1].elapsed < GREEN_DURATION_Cars

====
